---------------------------- MODULE Spec2Model ----------------------------
(***************************************************************************)
(* Model of src/main.py: the Australian working-days HTTP service.         *)
(*                                                                         *)
(* Two endpoints, /working-days (memoised count) and /working-days-list    *)
(* (fresh list), share the validation prologue and the predicate           *)
(* is_working_day.  The only state that outlives a request is the          *)
(* lru_cache wrapped around count_working_days.                            *)
(*                                                                         *)
(* A datetime is modelled by its proleptic Gregorian ordinal, the way      *)
(* datetime arithmetic (subtraction, timedelta, weekday) works on it; a    *)
(* date text "YYYY-MM-DD" is modelled by its three numeric fields          *)
(* <<YYYY, MM, DD>>.  strptime and strftime convert between the two.       *)
(***************************************************************************)
EXTENDS Integers, Sequences, FiniteSets

VARIABLES
    cache,      \* lru_cache of count_working_days: entries oldest first
    resp,       \* the request last answered by the event loop, and its answer
    inflight    \* per worker thread: a count request between lookup and store

vars == <<cache, resp, inflight>>

---------------------------------------------------------------------------
(* Bounds of the model *)

\* Capacity of the count cache.  The program sets maxsize=1000 (main.py:21);
\* the model scales it down so that the cache fills and evicts.
maxsize == 2

\* Number of threads that call count_working_days concurrently (SpecThreads).
NumWorkers == 2

---------------------------------------------------------------------------
(* Program constants *)

None == "None"

AUSTRALIAN_STATES == <<"ACT", "NSW", "NT", "QLD", "SA", "TAS", "VIC", "WA">>

\* range(2000, 2050)
FirstYear == 2000
StopYear == 2050

InvalidDateFormat == "Invalid date format. Use YYYY-MM-DD"
InvertedRange == "Start date must be before or equal to end date"
UnknownJurisdiction == "Invalid state. Must be one of ACT, NSW, NT, QLD, SA, TAS, VIC, WA"

---------------------------------------------------------------------------
(* Inputs *)

\* Date texts a client sends: the last day before the holiday span (a
\* Friday) and a Monday that is a holiday in two states only; and a text
\* that names no calendar date.
DateTexts == { <<1999, 12, 31>>, <<2000, 3, 13>> }

BadDateText == <<2000, 2, 30>>

\* The state query parameter: absent, empty, or a valid code; and an
\* unknown code.
StateTexts == { None, "", "VIC" }

BadStateText == "XX"

\* The requests a client sends, <<start_date, end_date, state>>: every
\* combination of the well-formed inputs (inverted ranges among them), and
\* requests with a malformed start, a malformed end, an unknown state, and
\* an inverted range together with an unknown state.
Requests ==
    (DateTexts \X DateTexts \X StateTexts)
      \cup { <<BadDateText, <<2000, 3, 13>>, None>>,
             << <<1999, 12, 31>>, BadDateText, "VIC">>,
             << <<1999, 12, 31>>, <<2000, 3, 13>>, BadStateText>>,
             << <<2000, 3, 13>>, <<1999, 12, 31>>, BadStateText>> }

\* The requests the worker threads of SpecThreads serve.
ThreadRequests ==
    { << <<1999, 12, 31>>, <<2000, 3, 13>>, None>>,
      << <<1999, 12, 31>>, <<2000, 3, 13>>, "VIC">>,
      << <<2000, 3, 13>>, <<2000, 3, 13>>, None>>,
      << <<2000, 3, 13>>, <<2000, 3, 13>>, "VIC">>,
      << <<2000, 3, 13>>, <<1999, 12, 31>>, None>> }

---------------------------------------------------------------------------
(* datetime: calendar arithmetic *)

_is_leap(year) == year % 4 = 0 /\ (year % 100 # 0 \/ year % 400 = 0)

_DAYS_IN_MONTH == <<31, 28, 31, 30, 31, 30, 31, 31, 30, 31, 30, 31>>

_DAYS_BEFORE_MONTH == <<0, 31, 59, 90, 120, 151, 181, 212, 243, 273, 304, 334>>

_days_in_month(year, month) ==
    IF month = 2 /\ _is_leap(year) THEN 29 ELSE _DAYS_IN_MONTH[month]

_days_before_year(year) ==
    LET y == year - 1 IN y * 365 + (y \div 4) - (y \div 100) + (y \div 400)

_days_before_month(year, month) ==
    _DAYS_BEFORE_MONTH[month] + (IF month > 2 /\ _is_leap(year) THEN 1 ELSE 0)

_ymd2ord(year, month, day) ==
    _days_before_year(year) + _days_before_month(year, month) + day

_ord2ymd(ordinal) ==
    LET n0 == ordinal - 1
        n400 == n0 \div 146097
        r400 == n0 % 146097
        n100 == r400 \div 36524
        r100 == r400 % 36524
        n4 == r100 \div 1461
        r4 == r100 % 1461
        n1 == r4 \div 365
        n == r4 % 365
        year == n400 * 400 + 1 + n100 * 100 + n4 * 4 + n1
        leapyear == n1 = 3 /\ (n4 # 24 \/ n100 = 3)
        month0 == (n + 50) \div 32
        preceding0 == _DAYS_BEFORE_MONTH[month0]
                        + (IF month0 > 2 /\ leapyear THEN 1 ELSE 0)
        month == IF preceding0 > n THEN month0 - 1 ELSE month0
        preceding == IF preceding0 > n
                     THEN preceding0 - (_DAYS_IN_MONTH[month]
                                         + (IF month = 2 /\ leapyear THEN 1 ELSE 0))
                     ELSE preceding0
    IN  IF n1 = 4 \/ n100 = 4
        THEN <<year - 1, 12, 31>>
        ELSE <<year, month, n - preceding + 1>>

\* datetime.weekday(): Monday is 0, Sunday is 6
weekday(date) == (date + 6) % 7

\* datetime.strptime(date_str, "%Y-%m-%d") raises ValueError unless the
\* fields name a calendar date
strptime_ok(date_str) ==
    /\ date_str[1] \in 1..9999
    /\ date_str[2] \in 1..12
    /\ date_str[3] \in 1.._days_in_month(date_str[1], date_str[2])

strptime(date_str) == _ymd2ord(date_str[1], date_str[2], date_str[3])

\* day.strftime("%Y-%m-%d")
strftime(date) == _ord2ymd(date)

---------------------------------------------------------------------------
(* The holiday oracle (holidays.Australia), an external collaborator *)

\* Excerpt of the gazetted calendar between the input dates: New Year's Day
\* (a Saturday) with its Monday in lieu and Australia Day everywhere;
\* Labour Day on the first Monday of March in WA, on the second in VIC;
\* Eight Hours Day on the second Monday of March in TAS.
Gazetted(prov) ==
    { <<2000, 1, 1>>, <<2000, 1, 3>>, <<2000, 1, 26>> }
      \cup (IF prov \in {"VIC", "TAS"} THEN { <<2000, 3, 13>> } ELSE {})
      \cup (IF prov = "WA" THEN { <<2000, 3, 6>> } ELSE {})

\* Australia(years=..., prov=...): the dates of those years, keyed by date
Australia(years, prov) ==
    { _ymd2ord(h[1], h[2], h[3]) : h \in { g \in Gazetted(prov) : g[1] \in years } }

---------------------------------------------------------------------------
(* Working-day engine *)

\* The calendars of the span, one per prov value, as the package populates
\* them; a constant of the model, so each is built once.
Populated ==
    [prov \in { AUSTRALIAN_STATES[i] : i \in 1..Len(AUSTRALIAN_STATES) } \cup { None, "" }
        |-> Australia(FirstYear..(StopYear - 1), prov)]

get_holidays(state) ==
    IF state \in DOMAIN Populated
    THEN Populated[state]
    ELSE Australia(FirstYear..(StopYear - 1), state)

\* mutant: Saturday taken for a weekday
is_working_day_saturday(date, state) ==
    LET holidays == get_holidays(state)
    IN  weekday(date) <= 5 /\ date \notin holidays

\* mutant: no holiday lookup when the state is absent
is_working_day_absent_weekday_only(date, state) ==
    LET holidays == get_holidays(state)
    IN  weekday(date) < 5 /\ (state = None \/ date \notin holidays)

is_working_day(date, state) ==
    LET holidays == get_holidays(state)
    IN  weekday(date) < 5 /\ date \notin holidays

\* sum(1 for day in range(stop) if is_working_day(start_date + day, state))
RECURSIVE sum_working(_, _, _, _)
sum_working(start_date, state, day, stop) ==
    IF day >= stop
    THEN 0
    ELSE (IF is_working_day(start_date + day, state) THEN 1 ELSE 0)
           + sum_working(start_date, state, day + 1, stop)

\* mutant: the last day of the range is left out
count_working_days_no_last_day(start_date, end_date, state) ==
    sum_working(start_date, state, 0, end_date - start_date)

\* the function under @lru_cache (count_working_days.__wrapped__)
count_working_days(start_date, end_date, state) ==
    sum_working(start_date, state, 0, (end_date - start_date) + 1)

\* [start + x for x in range(stop) if is_working_day(start + x, state)]
RECURSIVE days_working(_, _, _, _)
days_working(start, state, x, stop) ==
    IF x >= stop
    THEN <<>>
    ELSE (IF is_working_day(start + x, state) THEN <<start + x>> ELSE <<>>)
           \o days_working(start, state, x + 1, stop)

\* mutant: the range runs one day past the end
working_days_list_overrun(start, end, state) ==
    LET working_days == days_working(start, state, 0, (end - start) + 2)
    IN  [i \in 1..Len(working_days) |-> strftime(working_days[i])]

working_days_list(start, end, state) ==
    LET working_days == days_working(start, state, 0, (end - start) + 1)
    IN  [i \in 1..Len(working_days) |-> strftime(working_days[i])]

---------------------------------------------------------------------------
(* @lru_cache(maxsize=...) around count_working_days *)

\* mutant: the key is built from the dates only
make_key_dates_only(start_date, end_date, state) == <<start_date, end_date, None>>

\* the cache key: the positional arguments
make_key(start_date, end_date, state) == <<start_date, end_date, state>>

\* position of key in the cache, 0 when absent
cache_find(c, key) ==
    IF \E i \in 1..Len(c) : c[i].key = key
    THEN CHOOSE i \in 1..Len(c) : c[i].key = key
    ELSE 0

\* a hit moves the entry to the most-recently-used end
lru_hit(c, i) ==
    [j \in 1..Len(c) |-> IF j < i THEN c[j] ELSE IF j < Len(c) THEN c[j + 1] ELSE c[i]]

\* mutant: a full cache drops its newest entry
lru_store_evict_newest(c, key, result) ==
    IF cache_find(c, key) # 0
    THEN c
    ELSE IF Len(c) >= maxsize
         THEN Append(SubSeq(c, 1, Len(c) - 1), [key |-> key, result |-> result])
         ELSE Append(c, [key |-> key, result |-> result])

\* mutant: the oldest entry is reused for the new result under its old key
lru_store_stale_key(c, key, result) ==
    IF cache_find(c, key) # 0
    THEN c
    ELSE IF Len(c) >= maxsize
         THEN Append(Tail(c), [key |-> c[1].key, result |-> result])
         ELSE Append(c, [key |-> key, result |-> result])

\* after a miss: a key stored meanwhile is left alone; a full cache drops
\* its oldest entry; the new entry becomes the most recently used
lru_store(c, key, result) ==
    IF cache_find(c, key) # 0
    THEN c
    ELSE IF Len(c) >= maxsize
         THEN Append(Tail(c), [key |-> key, result |-> result])
         ELSE Append(c, [key |-> key, result |-> result])

---------------------------------------------------------------------------
(* Request handling *)

parse_date(date_str) ==
    IF strptime_ok(date_str)
    THEN [status |-> 200, detail |-> "", date |-> strptime(date_str)]
    ELSE [status |-> 400, detail |-> InvalidDateFormat, date |-> 0]

States == { AUSTRALIAN_STATES[i] : i \in 1..Len(AUSTRALIAN_STATES) }

\* Python truth value of the Optional[str] parameter
truthy(state) == state # None /\ state # ""

\* the checks both handlers run before computing; "" when all pass
request_error(start_date, end_date, state) ==
    LET start == parse_date(start_date)
        end == parse_date(end_date)
    IN  IF start.status = 400 THEN start.detail
        ELSE IF end.status = 400 THEN end.detail
        ELSE IF start.date > end.date THEN InvertedRange
        ELSE IF truthy(state) /\ state \notin States THEN UnknownJurisdiction
        ELSE ""

\* What the event loop answered.  hit, called and evicted record what the
\* handler did on the way: whether the count came from the cache, which
\* engine functions it invoked, and the key the cache dropped (<<>>: none).
Answer(path, start_date, end_date, state, status, detail, count, days, hit, called, evicted) ==
    [path |-> path, start_date |-> start_date, end_date |-> end_date, state |-> state,
     status |-> status, detail |-> detail, count |-> count, days |-> days,
     hit |-> hit, called |-> called, evicted |-> evicted]

HTTPException(path, start_date, end_date, state, detail) ==
    Answer(path, start_date, end_date, state, 400, detail, -1, <<>>, FALSE, {}, <<>>)

\* mutant: the state is checked only after the count has been computed
get_working_days_late_check(start_date, end_date, state) ==
    LET dates == request_error(start_date, end_date, None)
        detail == request_error(start_date, end_date, state)
        start == parse_date(start_date).date
        end == parse_date(end_date).date
        key == make_key(start, end, state)
        i == cache_find(cache, key)
        working_days == IF i # 0 THEN cache[i].result
                        ELSE count_working_days(start, end, state)
    IN  /\ IF dates # ""
           THEN /\ resp' = HTTPException("/working-days", start_date, end_date, state, dates)
                /\ cache' = cache
           ELSE /\ cache' = IF i # 0 THEN lru_hit(cache, i)
                            ELSE lru_store(cache, key, working_days)
                /\ resp' = IF detail # ""
                           THEN HTTPException("/working-days", start_date, end_date, state, detail)
                           ELSE Answer("/working-days", start_date, end_date, state, 200, "",
                                       working_days, <<>>, i # 0,
                                       IF i # 0 THEN {"count_working_days"}
                                       ELSE {"count_working_days", "is_working_day"},
                                       IF i = 0 /\ Len(cache) >= maxsize
                                       THEN cache[1].key ELSE <<>>)
        /\ UNCHANGED inflight

\* GET /working-days
get_working_days(start_date, end_date, state) ==
    LET detail == request_error(start_date, end_date, state)
        start == parse_date(start_date).date
        end == parse_date(end_date).date
        key == make_key(start, end, state)
        i == cache_find(cache, key)
        working_days == IF i # 0 THEN cache[i].result
                        ELSE count_working_days(start, end, state)
    IN  /\ IF detail # ""
           THEN /\ resp' = HTTPException("/working-days", start_date, end_date, state, detail)
                /\ cache' = cache
           ELSE /\ cache' = IF i # 0 THEN lru_hit(cache, i)
                            ELSE lru_store(cache, key, working_days)
                /\ resp' = Answer("/working-days", start_date, end_date, state, 200, "",
                                  working_days, <<>>, i # 0,
                                  IF i # 0 THEN {"count_working_days"}
                                  ELSE {"count_working_days", "is_working_day"},
                                  IF i = 0 /\ Len(cache) >= maxsize
                                  THEN cache[1].key ELSE <<>>)
        /\ UNCHANGED inflight

\* GET /working-days-list
get_working_days_list(start_date, end_date, state) ==
    LET detail == request_error(start_date, end_date, state)
        start == parse_date(start_date).date
        end == parse_date(end_date).date
    IN  /\ IF detail # ""
           THEN resp' = HTTPException("/working-days-list", start_date, end_date, state, detail)
           ELSE resp' = Answer("/working-days-list", start_date, end_date, state, 200, "",
                               -1, working_days_list(start, end, state), FALSE,
                               {"is_working_day"}, <<>>)
        /\ UNCHANGED <<cache, inflight>>

---------------------------------------------------------------------------
(* The service: one event loop, each handler runs to completion *)

Idle == [pc |-> "idle", args |-> <<>>, status |-> 0, result |-> -1, hit |-> FALSE]

Init ==
    /\ cache = <<>>
    /\ resp = Answer("", <<>>, <<>>, None, 0, "", -1, <<>>, FALSE, {}, <<>>)
    /\ inflight = [w \in 1..NumWorkers |-> Idle]

Next ==
    \/ \E r \in Requests : get_working_days(r[1], r[2], r[3])
    \/ \E r \in Requests : get_working_days_list(r[1], r[2], r[3])

Spec == Init /\ [][Next]_vars

---------------------------------------------------------------------------
(* The same count handler run by worker threads: the cache lookup and the  *)
(* store after a miss are separate steps of lru_cache, with the wrapped    *)
(* function computing between them.                                        *)

\* validation and the cache lookup of count_working_days(start, end, state)
thread_lookup(w, start_date, end_date, state) ==
    LET detail == request_error(start_date, end_date, state)
        start == parse_date(start_date).date
        end == parse_date(end_date).date
        i == cache_find(cache, make_key(start, end, state))
    IN  /\ inflight[w].pc = "idle"
        /\ IF detail # ""
           THEN /\ inflight' = [inflight EXCEPT ![w] =
                       [pc |-> "returned", args |-> <<>>, status |-> 400,
                        result |-> -1, hit |-> FALSE]]
                /\ cache' = cache
           ELSE IF i # 0
           THEN /\ inflight' = [inflight EXCEPT ![w] =
                       [pc |-> "returned", args |-> <<start, end, state>>, status |-> 200,
                        result |-> cache[i].result, hit |-> TRUE]]
                /\ cache' = lru_hit(cache, i)
           ELSE /\ inflight' = [inflight EXCEPT ![w] =
                       [pc |-> "computing", args |-> <<start, end, state>>, status |-> 0,
                        result |-> -1, hit |-> FALSE]]
                /\ cache' = cache
        /\ UNCHANGED resp

\* the wrapped function has returned: store its result and answer
thread_store(w) ==
    LET args == inflight[w].args
        working_days == count_working_days(args[1], args[2], args[3])
    IN  /\ inflight[w].pc = "computing"
        /\ cache' = lru_store(cache, make_key(args[1], args[2], args[3]), working_days)
        /\ inflight' = [inflight EXCEPT ![w] =
               [pc |-> "returned", args |-> args, status |-> 200,
                result |-> working_days, hit |-> FALSE]]
        /\ UNCHANGED resp

\* the response is sent; the thread takes the next request
thread_return(w) ==
    /\ inflight[w].pc = "returned"
    /\ inflight' = [inflight EXCEPT ![w] = Idle]
    /\ UNCHANGED <<cache, resp>>

NextThreads ==
    \/ \E w \in 1..NumWorkers, r \in ThreadRequests : thread_lookup(w, r[1], r[2], r[3])
    \/ \E w \in 1..NumWorkers : thread_store(w)
    \/ \E w \in 1..NumWorkers : thread_return(w)

SpecThreads == Init /\ [][NextThreads]_vars

---------------------------------------------------------------------------
(* Reference notions the properties are stated in: the calendar read off   *)
(* the date texts themselves, without datetime arithmetic.                 *)

\* every date text of the months the inputs lie in
CalendarTexts ==
    { t \in ({1999} \X {12} \X (1..31)) \cup ({2000} \X (1..4) \X (1..31)) :
        t[3] <= _days_in_month(t[1], t[2]) }

TextLess(a, b) ==
    \/ a[1] < b[1]
    \/ a[1] = b[1] /\ a[2] < b[2]
    \/ a[1] = b[1] /\ a[2] = b[2] /\ a[3] < b[3]

TextsBetween(a, b) == { t \in CalendarTexts : ~TextLess(t, a) /\ ~TextLess(b, t) }

\* day of the week of a date text, Sunday = 0 .. Saturday = 6
TextDayOfWeek(t) ==
    LET shift == <<0, 3, 2, 5, 0, 3, 5, 1, 4, 6, 2, 4>>
        y == IF t[2] < 3 THEN t[1] - 1 ELSE t[1]
    IN  (y + (y \div 4) - (y \div 100) + (y \div 400) + shift[t[2]] + t[3]) % 7

MondayToFriday(t) == TextDayOfWeek(t) \in 1..5

\* t is in the holiday set the oracle yields for state
OracleHoliday(t, state) == t \in Gazetted(state) /\ t[1] \in FirstYear..(StopYear - 1)

Listed(days) == { days[i] : i \in 1..Len(days) }

CountAnswered == resp.path = "/working-days" /\ resp.status = 200

ListAnswered == resp.path = "/working-days-list" /\ resp.status = 200

\* the (start, end, jurisdiction) of the request last answered
AnsweredKey == <<strptime(resp.start_date), strptime(resp.end_date), resp.state>>

CachedKeys == { cache[i].key : i \in 1..Len(cache) }

---------------------------------------------------------------------------
(* Properties *)

\* C1: for every request that passes validation, the count returned by
\* /working-days (cached or fresh) equals the number of dates
\* /working-days-list produces for the same start, end and state.
C1_CountEqualsListLength ==
    /\ CountAnswered =>
          resp.count = Len(working_days_list(AnsweredKey[1], AnsweredKey[2], resp.state))
    /\ ListAnswered =>
          Len(resp.days) = count_working_days(AnsweredKey[1], AnsweredKey[2], resp.state)

\* a count of several days served from the cache
C1_Witness == CountAnswered /\ resp.hit /\ resp.count > 1

\* C2 (as claimed): a request whose start or end year lies outside
\* 2000..2049 is answered 400 on both endpoints.
C2_OutOfSpanRejected ==
    (/\ resp.path # ""
     /\ \/ resp.start_date[1] \notin FirstYear..(StopYear - 1)
        \/ resp.end_date[1] \notin FirstYear..(StopYear - 1))
      => resp.status = 400

C4_EngineStateNoneOrCode ==
    \A i \in 1..Len(cache) : cache[i].key[3] \in States \cup { None }

\* C5: a date of the range is listed, and counted, iff it is a Monday to
\* Friday and not in the holiday set the oracle yields for the state; no
\* Saturday or Sunday is ever listed or counted.
C5_WorkingDayIffWeekdayNotHoliday ==
    LET working == { t \in TextsBetween(resp.start_date, resp.end_date) :
                        MondayToFriday(t) /\ ~OracleHoliday(t, resp.state) }
    IN  /\ ListAnswered => Listed(resp.days) = working
        /\ CountAnswered => resp.count = Cardinality(working)

\* a list over a range that holds a weekend day, a weekday holiday of the
\* state and working days
C5_Witness ==
    /\ ListAnswered
    /\ Len(resp.days) > 0
    /\ \E t \in TextsBetween(resp.start_date, resp.end_date) : ~MondayToFriday(t)
    /\ \E t \in TextsBetween(resp.start_date, resp.end_date) :
          MondayToFriday(t) /\ OracleHoliday(t, resp.state)

\* C6: every entry the cache holds equals the uncached tally for its key,
\* and a count answered from the cache is the value a miss would compute.
C6_CacheHoldsTallies ==
    /\ \A i \in 1..Len(cache) :
          cache[i].result = count_working_days(cache[i].key[1], cache[i].key[2], cache[i].key[3])
    /\ CountAnswered =>
          resp.count = count_working_days(AnsweredKey[1], AnsweredKey[2], resp.state)

\* a hit on a full cache, for a key whose tally differs from that of the
\* same range in another state
C6_Witness ==
    /\ CountAnswered
    /\ resp.hit
    /\ Len(cache) = maxsize
    /\ \E state \in StateTexts :
          count_working_days(AnsweredKey[1], AnsweredKey[2], state) # resp.count

\* C7: the list is strictly ascending (so without duplicates), every
\* element lies in [start, end], and for start = end it is empty or the
\* single date start.
C7_ListAscendingWithinRange ==
    ListAnswered =>
      /\ \A i \in 1..Len(resp.days), j \in 1..Len(resp.days) :
            i < j => TextLess(resp.days[i], resp.days[j])
      /\ \A i \in 1..Len(resp.days) :
            /\ ~TextLess(resp.days[i], resp.start_date)
            /\ ~TextLess(resp.end_date, resp.days[i])
      /\ resp.start_date = resp.end_date => resp.days \in { <<>>, <<resp.start_date>> }

\* a list of several dates that ends on the last day of the range
C7_Witness ==
    /\ ListAnswered
    /\ Len(resp.days) > 1
    /\ resp.days[Len(resp.days)] = resp.end_date

OtherEntries(c, key) == SelectSeq(c, LAMBDA e : e.key # key)

CacheBounded ==
    /\ Len(cache) <= maxsize
    /\ \A i \in 1..Len(cache), j \in 1..Len(cache) : i # j => cache[i].key # cache[j].key

\* what a step does to the cache: the key of an answered count becomes the
\* most recently used; the other entries keep their order, less the oldest
\* one when the key was absent and the cache full; nothing else changes it
CacheStep ==
    LET key == <<strptime(resp'.start_date), strptime(resp'.end_date), resp'.state>>
    IN  IF resp'.path = "/working-days" /\ resp'.status = 200
        THEN /\ Len(cache') > 0
             /\ cache'[Len(cache')].key = key
             /\ OtherEntries(cache', key) =
                   IF key \notin CachedKeys /\ Len(cache) = maxsize
                   THEN Tail(cache)
                   ELSE OtherEntries(cache, key)
        ELSE cache' = cache

\* C8: the cache never holds more than maxsize entries and its keys are
\* distinct; a miss on a full cache evicts exactly the least recently used
\* entry (least recently hit or inserted) and admits the new key.
C8_CacheBoundedLRU == [](CacheBounded) /\ [][CacheStep]_vars

\* a miss has just evicted an entry from the full cache
C8_Witness ==
    /\ CountAnswered
    /\ resp.evicted # <<>>
    /\ resp.evicted \notin CachedKeys
    /\ Len(cache) = maxsize

\* the request fails validation: a text that is no calendar date, an
\* inverted range, or a non-empty state that is not a code
FailsValidation(r) ==
    \/ r.start_date \notin CalendarTexts
    \/ r.end_date \notin CalendarTexts
    \/ TextLess(r.end_date, r.start_date)
    \/ r.state \notin States \cup { None, "" }

RejectedStep ==
    resp'.path # "" =>
      /\ FailsValidation(resp') => resp'.status = 400
      /\ resp'.status = 400 =>
            /\ resp'.called = {}
            /\ resp'.count = -1
            /\ resp'.days = <<>>
            /\ cache' = cache

\* C9: on both endpoints a request that fails validation is answered 400
\* before any computation: no engine function is called, no partial result
\* is returned and the cache is left unchanged.
C9_RejectedBeforeComputation == [][RejectedStep]_vars

\* an unknown state rejected while the cache holds entries
C9_Witness ==
    /\ resp.status = 400
    /\ resp.detail = UnknownJurisdiction
    /\ Len(cache) > 0

\* C10: under every interleaving of the threads' lookups and stores, a
\* count request returns the tally of its own (start, end, state).
C10_ThreadsReturnOwnTally ==
    \A w \in 1..NumWorkers :
        (inflight[w].pc = "returned" /\ inflight[w].status = 200) =>
            inflight[w].result =
                count_working_days(inflight[w].args[1], inflight[w].args[2], inflight[w].args[3])

\* two threads missed on the same key, both computed and both stored
C10_Witness ==
    \E v \in 1..NumWorkers, w \in 1..NumWorkers :
        /\ v # w
        /\ inflight[v].pc = "returned" /\ inflight[w].pc = "returned"
        /\ inflight[v].status = 200 /\ inflight[w].status = 200
        /\ ~inflight[v].hit /\ ~inflight[w].hit
        /\ inflight[v].args = inflight[w].args

=============================================================================
